---- MODULE Spec2Model ----
(***************************************************************************)
(* Promotion detection of bidco-retail-analysis                            *)
(* (src/src/analytics/promotions.py, src/src/utils/helpers.py,             *)
(* src/src/schema.py, src/src/config.py).                                  *)
(*                                                                         *)
(* The dataset is a polars DataFrame; it is modelled as a set of rows      *)
(* (two rows of a frame that agree in every modelled column are not        *)
(* represented).  Floating point columns are modelled as exact rationals   *)
(* <<numerator, denominator>> in lowest terms, a null as the empty tuple.  *)
(* Description, Section, the median RRP columns and day_key are carried    *)
(* through by the code and read by no property below: they are left out.   *)
(***************************************************************************)
EXTENDS Integers, Sequences, FiniteSets, TLC

VARIABLES df, ret, requests, issues, cache

vars == <<df, ret, requests, issues, cache>>

-----------------------------------------------------------------------------
(* Bounds of the model and constants of the program *)

\* rows of a dataset that spreads over several (store, item) groups
MaxRows == 2

\* rows of a dataset whose rows all belong to one (store, item) group
MaxGroupRows == 4

\* PromoConfig (src/src/config.py)
discount_threshold_pct == 10

min_promo_days == 2

min_baseline_days == 2

-----------------------------------------------------------------------------
(* Nullable exact rationals *)

NULL == <<>>

Abs(n) == IF n < 0 THEN -n ELSE n

RECURSIVE Gcd(_, _)
Gcd(a, b) == IF b = 0 THEN a ELSE Gcd(b, a % b)

\* n/d in lowest terms with a positive denominator (d # 0)
Rat(n, d) ==
    LET g == Gcd(Abs(n), Abs(d))
        s == IF d < 0 THEN -1 ELSE 1
    IN  <<(s * n) \div g, (s * d) \div g>>

RInt(n) == <<n, 1>>

RAdd(a, b) == Rat(a[1] * b[2] + b[1] * a[2], a[2] * b[2])

RSub(a, b) == Rat(a[1] * b[2] - b[1] * a[2], a[2] * b[2])

RMul(a, b) == Rat(a[1] * b[1], a[2] * b[2])

\* b # 0
RDiv(a, b) == Rat(a[1] * b[2], a[2] * b[1])

RLess(a, b) == a[1] * b[2] < b[1] * a[2]

RLeq(a, b) == a[1] * b[2] <= b[1] * a[2]

\* max(0, a)
RMax0(a) == IF RLess(a, RInt(0)) THEN RInt(0) ELSE a

-----------------------------------------------------------------------------
(* Aggregations of a polars column, given as a sequence of nullable values *)

RECURSIVE SetToSeq(_)
SetToSeq(S) ==
    IF S = {} THEN <<>>
    ELSE LET x == CHOOSE y \in S : TRUE
         IN  <<x>> \o SetToSeq(S \ {x})

NonNull(col) == SelectSeq(col, LAMBDA v : v # NULL)

RECURSIVE SumRat(_)
SumRat(col) == IF col = <<>> THEN RInt(0) ELSE RAdd(Head(col), SumRat(Tail(col)))

\* Expr.sum(): nulls are skipped, and the sum of no value at all is 0
col_sum(col) == SumRat(NonNull(col))

\* Expr.mean(): nulls are skipped, and the mean of no value at all is null
col_mean(col) ==
    LET vs == NonNull(col)
    IN  IF vs = <<>> THEN NULL ELSE RDiv(SumRat(vs), RInt(Len(vs)))

RECURSIVE SortRat(_)
SortRat(col) ==
    IF col = <<>> THEN <<>>
    ELSE LET i == CHOOSE k \in DOMAIN col : \A j \in DOMAIN col : RLeq(col[k], col[j])
         IN  <<col[i]>> \o SortRat(SubSeq(col, 1, i - 1) \o SubSeq(col, i + 1, Len(col)))

\* Series.median(): nulls are skipped, the median of an even number of values
\* is the mean of the two in the middle, and the median of no value is null
col_median(col) ==
    LET vs == SortRat(NonNull(col))
        n  == Len(vs)
    IN  IF n = 0 THEN NULL
        ELSE IF n % 2 = 1 THEN vs[(n + 1) \div 2]
        ELSE RDiv(RAdd(vs[n \div 2], vs[n \div 2 + 1]), RInt(2))

\* Expr.n_unique(): a null counts as one more distinct value
col_n_unique(col) == Cardinality({col[i] : i \in DOMAIN col})

-----------------------------------------------------------------------------
(* Strings of the Supplier column: sequences of characters *)

Lower(c) ==
    CASE c = "B" -> "b" [] c = "I" -> "i" [] c = "D" -> "d" [] c = "C" -> "c"
      [] c = "O" -> "o" [] c = "U" -> "u" [] c = "N" -> "n" [] c = "G" -> "g"
      [] c = "A" -> "a" [] OTHER -> c

\* str.to_lowercase() / str.lower()
to_lowercase(s) == [i \in DOMAIN s |-> Lower(s[i])]

\* one character of a regular expression against one character of a string:
\* a dot stands for any character, a letter for itself
char_matches(p, c) == p = "." \/ p = c

\* str.contains(pattern) of a string s (not null): pattern is a regular
\* expression (literal=False is the default), here of letters and dots, and
\* it is searched anywhere in s
str_contains(s, pattern) ==
    \E i \in 0 .. (Len(s) - Len(pattern)) :
        \A j \in 1 .. Len(pattern) : char_matches(pattern[j], s[i + j])

\* Python's `sub in s`: s has the string sub inside it, letter by letter
occurs_in(sub, s) ==
    \E i \in 0 .. (Len(s) - Len(sub)) : SubSeq(s, i + 1, i + Len(sub)) = sub

-----------------------------------------------------------------------------
(* The input: rows of the transaction file *)

Stores == {"S1", "S2"}

Items == {101, 102}

\* enough distinct sale days for one group to hold the promo days and the
\* baseline days that on_promo asks for
Dates == 1 .. (min_promo_days + min_baseline_days)

\* the columns that are a function of the item in the modelled files: items
\* 101, 103 and 203 are of BIDCO, 201 of Kapa, 202 of Pwani, the others of
\* Unga, and 104 has no supplier value
SupplierOf(item) ==
    CASE item \in {101, 103, 203} -> <<"B", "I", "D", "C", "O">>
      [] item = 104 -> NULL
      [] item = 201 -> <<"K", "a", "p", "a">>
      [] item = 202 -> <<"P", "w", "a", "n", "i">>
      [] OTHER -> <<"U", "n", "g", "a">>

SubDepartmentOf(item) ==
    CASE item \in {101, 201, 202, 203} -> "Cooking Oil"
      [] item = 103 -> "Soap"
      [] OTHER -> "Flour"

\* Quantity, Total Sales and RRP of a row: an undiscounted sale, a sale of
\* two units at exactly 10% below RRP, a sale at 20% below RRP, a sale
\* without RRP, and a refund
RowKinds ==
    { [Quantity |-> 1,  TotalSales |-> 10,  RRP |-> RInt(10)],
      [Quantity |-> 2,  TotalSales |-> 18,  RRP |-> RInt(10)],
      [Quantity |-> 1,  TotalSales |-> 8,   RRP |-> RInt(10)],
      [Quantity |-> 1,  TotalSales |-> 10,  RRP |-> NULL],
      [Quantity |-> -1, TotalSales |-> -10, RRP |-> RInt(10)] }

MkRow(s, i, d, k) ==
    [Store |-> s, Item_Code |-> i, Date |-> d, Supplier |-> SupplierOf(i),
     SubDepartment |-> SubDepartmentOf(i),
     Quantity |-> k.Quantity, TotalSales |-> k.TotalSales, RRP |-> k.RRP]

Rows == {MkRow(s, i, d, k) : s \in Stores, i \in Items, d \in Dates, k \in RowKinds}

SameGroup(r1, r2) == r1.Store = r2.Store /\ r1.Item_Code = r2.Item_Code

OneGroup(S) == \A r1, r2 \in S : SameGroup(r1, r2)

-----------------------------------------------------------------------------
(* src/src/utils/helpers.py *)

calculate_realized_price(r) ==
    IF r.Quantity # 0 THEN Rat(r.TotalSales, r.Quantity) ELSE NULL

calculate_discount_pct(r) ==
    LET price == calculate_realized_price(r)
    IN  IF r.RRP # NULL /\ r.RRP # RInt(0) /\ price # NULL
        THEN RMul(RDiv(RSub(r.RRP, price), r.RRP), RInt(100))
        ELSE NULL

flag_bidco_products(r) ==
    str_contains(to_lowercase(r.Supplier), <<"b", "i", "d", "c", "o">>)

\* the row with its derived columns
WithDerived(r) ==
    [Store |-> r.Store, Item_Code |-> r.Item_Code, Date |-> r.Date,
     Supplier |-> r.Supplier, SubDepartment |-> r.SubDepartment,
     Quantity |-> r.Quantity, TotalSales |-> r.TotalSales, RRP |-> r.RRP,
     realized_unit_price |-> calculate_realized_price(r),
     discount_pct |-> calculate_discount_pct(r),
     is_bidco |-> flag_bidco_products(r)]

\* mutant of keeps_row: the zero test is dropped
keeps_row_without_zero_test(r, allow_negatives, allow_zeros) ==
    (~allow_negatives) => (r.Quantity >= 0 /\ r.TotalSales >= 0)

keeps_row(r, allow_negatives, allow_zeros) ==
    /\ (~allow_negatives) => (r.Quantity >= 0 /\ r.TotalSales >= 0)
    /\ (~allow_zeros) => (r.Quantity # 0 /\ r.TotalSales # 0)

filter_valid_transactions(frame, allow_negatives, allow_zeros) ==
    {r \in frame : keeps_row(r, allow_negatives, allow_zeros)}

-----------------------------------------------------------------------------
(* src/src/analytics/promotions.py: PromoDetector *)

\* PromoDetector.__init__ / _prepare_data: self.df
prepare_data(frame) ==
    filter_valid_transactions({WithDerived(r) : r \in frame}, FALSE, FALSE)

\* a column of a group of rows, in some row order
Col(rows, field) ==
    LET sq == SetToSeq(rows) IN [i \in DOMAIN sq |-> sq[i][field]]

\* an integer column of a group of rows, as floats
NumCol(rows, field) ==
    LET sq == SetToSeq(rows) IN [i \in DOMAIN sq |-> RInt(sq[i][field])]

\* mutant of is_promo_day: the threshold itself does not count (> for >=)
is_promo_day_strict(avg_discount_pct) ==
    IF avg_discount_pct = NULL THEN FALSE
    ELSE RLess(RInt(discount_threshold_pct), avg_discount_pct)

is_promo_day(avg_discount_pct) ==
    IF avg_discount_pct = NULL THEN FALSE
    ELSE RLeq(RInt(discount_threshold_pct), avg_discount_pct)

\* one row of daily_data: the group of one store, item and date
DailyRow(rows) ==
    LET r0    == CHOOSE r \in rows : TRUE
        qty   == col_sum(NumCol(rows, "Quantity"))
        sales == col_sum(NumCol(rows, "TotalSales"))
        avg   == col_mean(Col(rows, "discount_pct"))
    IN  [Store |-> r0.Store, Item_Code |-> r0.Item_Code, Date |-> r0.Date,
         Supplier |-> r0.Supplier, SubDepartment |-> r0.SubDepartment,
         is_bidco |-> r0.is_bidco,
         daily_quantity |-> qty, daily_sales |-> sales,
         avg_discount_pct |-> avg,
         daily_realized_price |-> RDiv(sales, qty),
         is_promo_day |-> is_promo_day(avg)]

daily_data(prepared) ==
    { DailyRow({r \in prepared : SameGroup(r, k) /\ r.Date = k.Date}) : k \in prepared }

\* mutant of promo_status: the baseline branch is tested first
promo_status_baseline_first(promo_days, baseline_days) ==
    IF baseline_days >= min_baseline_days THEN "baseline"
    ELSE IF promo_days >= min_promo_days /\ baseline_days >= min_baseline_days
    THEN "on_promo"
    ELSE "insufficient_data"

promo_status(promo_days, baseline_days) ==
    IF promo_days >= min_promo_days /\ baseline_days >= min_baseline_days
    THEN "on_promo"
    ELSE IF baseline_days >= min_baseline_days THEN "baseline"
    ELSE "insufficient_data"

\* mutant of uplift_pct: no test of the baseline, a division by zero
\* replaced by 0 as safe_divide does
uplift_pct_zero_default(promo_quantity, baseline_quantity) ==
    IF promo_quantity = NULL THEN NULL
    ELSE IF baseline_quantity = RInt(0) THEN RInt(0)
    ELSE RMul(RDiv(RSub(promo_quantity, baseline_quantity), baseline_quantity),
              RInt(100))

uplift_pct(promo_quantity, baseline_quantity) ==
    IF RLess(RInt(0), baseline_quantity) /\ promo_quantity # NULL
    THEN RMul(RDiv(RSub(promo_quantity, baseline_quantity), baseline_quantity),
              RInt(100))
    ELSE NULL

\* mutant of baseline_days: every sale day counts as a baseline day
baseline_days_all(total_days, promo_days) == total_days

\* baseline_days = total_days - promo_days
baseline_days(total_days, promo_days) == total_days - promo_days

\* one row of sku_store_summary: the daily rows of one store and item
SkuStoreRow(days) ==
    LET d0    == CHOOSE d \in days : TRUE
        promo == {d \in days : d.is_promo_day}
        base  == {d \in days : ~d.is_promo_day}
        pdays == Cardinality(promo)
        tdays == Cardinality(days)
        pqty  == col_sum(Col(promo, "daily_quantity"))
        bqty  == col_sum(Col(base, "daily_quantity"))
    IN  [Store |-> d0.Store, Item_Code |-> d0.Item_Code,
         Supplier |-> d0.Supplier, SubDepartment |-> d0.SubDepartment,
         is_bidco |-> d0.is_bidco,
         first_date |-> CHOOSE x \in {d.Date : d \in days} :
                            \A y \in {d.Date : d \in days} : x <= y,
         last_date |-> CHOOSE x \in {d.Date : d \in days} :
                            \A y \in {d.Date : d \in days} : x >= y,
         promo_days |-> pdays, total_days |-> tdays,
         promo_quantity |-> pqty,
         promo_sales |-> col_sum(Col(promo, "daily_sales")),
         avg_promo_price |-> col_mean(Col(promo, "daily_realized_price")),
         avg_promo_discount |-> col_mean(Col(promo, "avg_discount_pct")),
         baseline_quantity |-> bqty,
         baseline_sales |-> col_sum(Col(base, "daily_sales")),
         avg_baseline_price |-> col_mean(Col(base, "daily_realized_price")),
         baseline_days |-> baseline_days(tdays, pdays),
         promo_status |-> promo_status(pdays, baseline_days(tdays, pdays)),
         uplift_pct |-> uplift_pct(pqty, bqty)]

detect_promos(prepared) ==
    LET daily == daily_data(prepared)
    IN  { SkuStoreRow({d \in daily : SameGroup(d, k)}) : k \in daily }

\* when(promo_status == "on_promo").then(Store Name).otherwise(None): the
\* store name as a one-element tuple, null as the empty one
PromoStoreCol(group) ==
    LET sq == SetToSeq(group)
    IN  [i \in DOMAIN sq |->
            IF sq[i].promo_status = "on_promo" THEN <<sq[i].Store>> ELSE NULL]

\* one row of sku_coverage: the sku_store_summary rows of one item
CoverageRow(group) ==
    LET g0     == CHOOSE g \in group : TRUE
        total  == col_n_unique(Col(group, "Store"))
        promo  == col_n_unique(PromoStoreCol(group))
    IN  [Item_Code |-> g0.Item_Code, Supplier |-> g0.Supplier,
         SubDepartment |-> g0.SubDepartment, is_bidco |-> g0.is_bidco,
         total_stores_with_sku |-> total,
         stores_with_promo |-> promo,
         avg_uplift_pct |-> col_mean(Col(group, "uplift_pct")),
         avg_discount_pct |-> col_mean(Col(group, "avg_promo_discount")),
         total_promo_units |-> col_sum(Col(group, "promo_quantity")),
         total_baseline_units |-> col_sum(Col(group, "baseline_quantity")),
         promo_coverage_pct |-> RMul(RDiv(RInt(promo), RInt(total)), RInt(100))]

calculate_promo_coverage(promo_data) ==
    { CoverageRow({g \in promo_data : g.Item_Code = k.Item_Code}) : k \in promo_data }

-----------------------------------------------------------------------------
(* src/src/schema.py: the fields a model requires, and validation *)

PromoDetectionResultRequired ==
    {"item_code", "description", "supplier", "sub_department", "section",
     "promo_status", "promo_stores", "baseline_stores", "total_stores",
     "promo_coverage_pct"}

PromoPerformanceSummaryRequired ==
    {"supplier", "analysis_date", "total_skus", "skus_on_promo", "promo_sku_pct"}

\* PromoPerformanceSummary: total_skus has the alias total_skus_analyzed
FieldOfKeyword(k) == IF k = "total_skus_analyzed" THEN "total_skus" ELSE k

\* pydantic builds the model iff every required field is given
validates(required, keywords) ==
    required \subseteq {FieldOfKeyword(k) : k \in keywords}

\* the keywords of PromoDetectionResult(...), the same in get_promo_results
\* and in get_supplier_summary
PromoDetectionResultKeywords ==
    {"item_code", "description", "supplier", "store_name", "sub_department",
     "section", "analysis_start_date", "analysis_end_date", "promo_days",
     "baseline_days", "promo_status", "avg_promo_price", "avg_baseline_price",
     "avg_rrp", "avg_discount_pct", "promo_units", "baseline_units",
     "promo_uplift_pct"}

\* the keywords of PromoPerformanceSummary(...) in get_supplier_summary
PromoPerformanceSummaryKeywords ==
    {"supplier", "category", "sub_department", "total_skus_analyzed",
     "skus_on_promo", "promo_sku_pct", "avg_uplift_pct", "median_uplift_pct",
     "avg_discount_pct", "avg_promo_coverage_pct", "top_performing_skus",
     "insights"}

-----------------------------------------------------------------------------
(* PromoDetector.get_supplier_summary *)

\* what a call returned or raised
Returned(op, arg, rows, value) ==
    [op |-> op, arg |-> arg, outcome |-> "ok", detail |-> "", rows |-> rows,
     value |-> value]

Raised(op, arg, exception, detail) ==
    [op |-> op, arg |-> arg, outcome |-> exception, detail |-> detail, rows |-> {},
     value |-> <<>>]

\* PromoDetector.get_promo_results: one PromoDetectionResult per row of
\* detect_promos
get_promo_results(prepared) ==
    LET promo_data == detect_promos(prepared)
    IN  IF promo_data # {}
           /\ ~validates(PromoDetectionResultRequired, PromoDetectionResultKeywords)
        THEN Raised("get_promo_results", <<>>, "ValidationError",
                    "PromoDetectionResult")
        ELSE Returned("get_promo_results", <<>>, promo_data, <<>>)

\* pl.col("Supplier").str.to_lowercase().str.contains(supplier.lower()) as a
\* filter: a null Supplier gives null, and filter drops the row
matches_supplier(row, supplier) ==
    /\ row.Supplier # NULL
    /\ str_contains(to_lowercase(row.Supplier), to_lowercase(supplier))

\* supplier_data: the rows of promo_data of the supplier
supplier_data(promo_data, supplier) ==
    {g \in promo_data : matches_supplier(g, supplier)}

\* valid_uplifts: the rows of supplier_data with an uplift and on promotion
valid_uplifts(sd) ==
    {g \in sd : g.uplift_pct # NULL /\ g.promo_status = "on_promo"}

avg_uplift(sd) == col_mean(Col(valid_uplifts(sd), "uplift_pct"))

median_uplift(sd) == col_median(Col(valid_uplifts(sd), "uplift_pct"))

\* avg_discount: the mean over the rows of supplier_data, of any status, that
\* have a promo discount
avg_discount(sd) ==
    col_mean(Col({g \in sd : g.avg_promo_discount # NULL}, "avg_promo_discount"))

\* category: supplier_data["Sub-Department"].mode()[0].  mode() lists the
\* most frequent values in no particular order: every one of them can be
\* the first
category(sd) ==
    LET vals == {g.SubDepartment : g \in sd}
    IN  {v \in vals :
            \A w \in vals : Cardinality({g \in sd : g.SubDepartment = w})
                               <= Cardinality({g \in sd : g.SubDepartment = v})}

\* sub_dept: supplier_data["Sub-Department"].unique().to_list()[0].  unique()
\* lists the distinct values in no particular order: every one of them can
\* be the first
sub_dept(sd) == {g.SubDepartment : g \in sd}

\* the orders in which the rows of a frame can stand
Orderings(rows) ==
    {sq \in [1 .. Cardinality(rows) -> rows] :
        \A i, j \in 1 .. Cardinality(rows) : i # j => sq[i] # sq[j]}

\* head(5) of the sorted valid_uplifts
top_skus_head == 5

\* top_skus: valid_uplifts.sort("uplift_pct", descending=True).head(5).  The
\* rows of valid_uplifts stand in the order group_by left them in, and sort
\* has one key: rows of equal uplift can stand in either order
top_skus(valid) ==
    LET sorted == {sq \in Orderings(valid) :
                      \A i \in 1 .. (Len(sq) - 1) :
                          RLeq(sq[i + 1].uplift_pct, sq[i].uplift_pct)}
    IN  {SubSeq(sq, 1, IF Len(sq) < top_skus_head THEN Len(sq) ELSE top_skus_head) :
            sq \in sorted}

\* supplier_data["Item_Code"].n_unique()
total_skus(sd) == Cardinality({g.Item_Code : g \in sd})

\* mutant of skus_on_promo: the on_promo rows are counted, not their products
skus_on_promo_rows(sd) == Cardinality({x \in sd : x.promo_status = "on_promo"})

\* supplier_data.filter(promo_status == "on_promo")["Item_Code"].n_unique()
skus_on_promo(sd) ==
    Cardinality({g.Item_Code : g \in {x \in sd : x.promo_status = "on_promo"}})

\* (skus_on_promo / total_skus * 100) if total_skus > 0 else 0
promo_sku_pct(sd) ==
    IF total_skus(sd) > 0
    THEN RMul(RDiv(RInt(skus_on_promo(sd)), RInt(total_skus(sd))), RInt(100))
    ELSE RInt(0)

\* mutant of no_supplier_data: the emptiness test is dropped
no_supplier_data_unchecked(sd) == FALSE

\* len(supplier_data) == 0
no_supplier_data(sd) == Cardinality(sd) = 0

get_supplier_summary(prepared, supplier) ==
    LET promo_data    == detect_promos(prepared)
        coverage_data == calculate_promo_coverage(promo_data)
        sd            == supplier_data(promo_data, supplier)
        supplier_coverage == {c \in coverage_data : matches_supplier(c, supplier)}
        avg_coverage  == col_mean(Col(supplier_coverage, "promo_coverage_pct"))
        summary ==
            [supplier |-> supplier, total_skus |-> total_skus(sd),
             skus_on_promo |-> skus_on_promo(sd),
             promo_sku_pct |-> promo_sku_pct(sd),
             avg_uplift_pct |-> avg_uplift(sd),
             median_uplift_pct |-> median_uplift(sd),
             avg_discount_pct |-> avg_discount(sd),
             avg_promo_coverage_pct |-> avg_coverage]
    IN  IF no_supplier_data(sd)
        THEN Raised("get_supplier_summary", supplier, "ValueError",
                    "No data found for supplier")
        ELSE IF valid_uplifts(sd) # {}
                /\ ~validates(PromoDetectionResultRequired, PromoDetectionResultKeywords)
        THEN Raised("get_supplier_summary", supplier, "ValidationError",
                    "PromoDetectionResult")
        ELSE IF ~validates(PromoPerformanceSummaryRequired,
                           PromoPerformanceSummaryKeywords)
        THEN Raised("get_supplier_summary", supplier, "ValidationError",
                    "PromoPerformanceSummary")
        ELSE Returned("get_supplier_summary", supplier, {}, <<summary>>)

-----------------------------------------------------------------------------
(* src/src/analytics/aggregations.py: KPIAggregator *)

\* KPIAggregator.__init__ / _prepare_data: self.df.  The derived columns and
\* the filter are those of PromoDetector; the discount column, which
\* KPIAggregator does not add, is read by none of its methods
KPIAggregator_prepare_data(frame) == prepare_data(frame)

\* KPIAggregator.get_supplier_metrics, without the list of categories
get_supplier_metrics(prepared, supplier) ==
    LET supplier_df        == {r \in prepared : matches_supplier(r, supplier)}
        total_market_sales == col_sum(NumCol(prepared, "TotalSales"))
        supplier_sales     == col_sum(NumCol(supplier_df, "TotalSales"))
    IN  [supplier |-> supplier,
         total_sales |-> supplier_sales,
         total_units |-> col_sum(NumCol(supplier_df, "Quantity")),
         total_transactions |-> Cardinality(supplier_df),
         market_share_pct |->
             IF RLess(RInt(0), total_market_sales)
             THEN RMul(RDiv(supplier_sales, total_market_sales), RInt(100))
             ELSE RInt(0),
         unique_skus |-> col_n_unique(Col(supplier_df, "Item_Code")),
         stores_present |-> col_n_unique(Col(supplier_df, "Store")),
         avg_unit_price |-> col_mean(Col(supplier_df, "realized_unit_price"))]

\* KPIAggregator.generate_executive_summary: key_metrics, before formatting
\* (format_percentage, format_currency and format_number take None too)
generate_executive_summary(prepared, supplier) ==
    LET supplier_metrics == get_supplier_metrics(prepared, supplier)
    IN  [market_share |-> supplier_metrics.market_share_pct,
         total_sales |-> supplier_metrics.total_sales,
         total_units |-> supplier_metrics.total_units,
         avg_unit_price |-> supplier_metrics.avg_unit_price,
         stores_present |-> supplier_metrics.stores_present,
         unique_stores |-> col_n_unique(Col(prepared, "Store"))]

-----------------------------------------------------------------------------
(* src/src/analytics/pricing.py: PriceIndexCalculator *)

\* PriceIndexConfig (src/src/config.py)
premium_threshold == Rat(110, 100)

discount_threshold == Rat(90, 100)

min_competitors_for_index == 2

min_transactions_for_price == 5

\* create_competitive_set_key: Sub-Department|Section.  Section is a function
\* of the sub-department in the modelled files
competitive_set_key(r) == r.SubDepartment

\* PriceIndexCalculator.__init__ / _prepare_data: self.df (the key is computed
\* where it is read)
PriceIndexCalculator_prepare_data(frame) == prepare_data(frame)

SamePriceGroup(r1, r2, by_store) ==
    /\ by_store => r1.Store = r2.Store
    /\ competitive_set_key(r1) = competitive_set_key(r2)
    /\ r1.Item_Code = r2.Item_Code

\* one row of price_summary: the transactions of one item in one competitive
\* set (and store); without by_store there is no Store Name column
PriceSummaryRow(rows, by_store) ==
    LET r0 == CHOOSE r \in rows : TRUE
    IN  [Store |-> IF by_store THEN <<r0.Store>> ELSE NULL,
         competitive_set_key |-> competitive_set_key(r0),
         Item_Code |-> r0.Item_Code, Supplier |-> r0.Supplier,
         SubDepartment |-> r0.SubDepartment, is_bidco |-> r0.is_bidco,
         avg_realized_price |-> col_mean(Col(rows, "realized_unit_price")),
         transaction_count |-> Cardinality(rows)]

\* price_summary, filtered to the items with enough transactions
price_summary(prepared, by_store) ==
    {p \in {PriceSummaryRow({r \in prepared : SamePriceGroup(r, k, by_store)}, by_store) :
                k \in prepared} :
        p.transaction_count >= min_transactions_for_price}

SameCompetitiveSet(p1, p2) ==
    p1.competitive_set_key = p2.competitive_set_key /\ p1.Store = p2.Store

\* one row of competitor_prices: the price_summary rows, not of Bidco, of one
\* competitive set (and store)
CompetitorRow(group) ==
    LET g0 == CHOOSE g \in group : TRUE
    IN  [Store |-> g0.Store, competitive_set_key |-> g0.competitive_set_key,
         competitor_avg_price |-> col_mean(Col(group, "avg_realized_price")),
         competitor_count |-> Cardinality(group),
         competitor_transactions |-> col_sum(NumCol(group, "transaction_count"))]

\* competitor_prices, filtered to the sets with enough competitors.  The flag
\* of a row without Supplier is null, and filter(~null) drops the row
competitor_prices(summary) ==
    LET others == {p \in summary : p.Supplier # NULL /\ ~p.is_bidco}
    IN  {c \in {CompetitorRow({p \in others : SameCompetitiveSet(p, k)}) : k \in others} :
            c.competitor_count >= min_competitors_for_index}

\* mutant of price_position: an index at a threshold is beyond it
price_position_inclusive(price_index) ==
    IF price_index = NULL THEN "insufficient_data"
    ELSE IF RLeq(premium_threshold, price_index) THEN "premium"
    ELSE IF RLeq(price_index, discount_threshold) THEN "discount"
    ELSE "at_market"

price_position(price_index) ==
    IF price_index = NULL THEN "insufficient_data"
    ELSE IF RLess(premium_threshold, price_index) THEN "premium"
    ELSE IF RLess(price_index, discount_threshold) THEN "discount"
    ELSE "at_market"

\* one row of price_index: a row of target_prices left-joined with
\* competitor_prices
PriceIndexRow(t, competitors) ==
    LET joined == {c \in competitors : SameCompetitiveSet(c, t)}
        index  == IF joined = {} THEN NULL
                  ELSE RDiv(t.avg_realized_price,
                            (CHOOSE c \in joined : TRUE).competitor_avg_price)
    IN  [Store |-> t.Store, Item_Code |-> t.Item_Code, Supplier |-> t.Supplier,
         SubDepartment |-> t.SubDepartment,
         competitive_set_key |-> t.competitive_set_key,
         avg_realized_price |-> t.avg_realized_price,
         competitor_avg_price |->
             IF joined = {} THEN NULL
             ELSE (CHOOSE c \in joined : TRUE).competitor_avg_price,
         competitor_count |->
             IF joined = {} THEN NULL
             ELSE <<(CHOOSE c \in joined : TRUE).competitor_count>>,
         price_index |-> index, price_position |-> price_position(index)]

\* PriceIndexCalculator.calculate_price_index
calculate_price_index(prepared, target_supplier, by_store) ==
    LET summary     == price_summary(prepared, by_store)
        competitors == competitor_prices(summary)
    IN  {PriceIndexRow(t, competitors) :
            t \in {p \in summary : matches_supplier(p, target_supplier)}}

\* the mean price index of each value of a column: the dictionary of the
\* values whose mean is not null, as a set of pairs
MeanIndexBy(rows, field) ==
    {pair \in {<<k[field], col_mean(Col({x \in rows : x[field] = k[field]}, "price_index"))>> :
                  k \in rows} :
        pair[2] # NULL}

\* PriceIndexCalculator._generate_recommendations: which recommendations are
\* made (their texts are left out)
generate_recommendations(avg_index, premium_count, discount_count, total_count, category_indices) ==
    IF total_count = 0 THEN {"insufficient_data"}
    ELSE {IF RLess(Rat(115, 100), avg_index) THEN "overall_premium"
          ELSE IF RLess(avg_index, Rat(85, 100)) THEN "overall_discount"
          ELSE "competitive"}
         \cup (IF premium_count * 100 > 50 * total_count THEN {"premium_share"} ELSE {})
         \cup (IF discount_count * 100 > 50 * total_count THEN {"discount_share"} ELSE {})
         \cup (IF \E c \in category_indices :
                     (\A d \in category_indices : RLeq(d[2], c[2]))
                     /\ RLess(Rat(12, 10), c[2])
                THEN {"category_premium"} ELSE {})
         \cup (IF \E c \in category_indices :
                     (\A d \in category_indices : RLeq(c[2], d[2]))
                     /\ RLess(c[2], Rat(8, 10))
                THEN {"category_discount"} ELSE {})

\* PriceIndexCalculator.get_price_summary
get_price_summary(prepared, target_supplier) ==
    LET store_level     == calculate_price_index(prepared, target_supplier, TRUE)
        portfolio_level == calculate_price_index(prepared, target_supplier, FALSE)
        valid_indices   == {x \in portfolio_level : x.price_index # NULL}
        priced_skus     == Cardinality(valid_indices)
        premium_skus    == Cardinality({x \in valid_indices : x.price_position = "premium"})
        at_market_skus  == Cardinality({x \in valid_indices : x.price_position = "at_market"})
        discount_skus   == Cardinality({x \in valid_indices : x.price_position = "discount"})
        avg_index       == IF priced_skus > 0
                           THEN col_mean(Col(valid_indices, "price_index")) ELSE RInt(0)
        median_index    == IF priced_skus > 0
                           THEN col_median(Col(valid_indices, "price_index")) ELSE RInt(0)
        category_indices == MeanIndexBy(portfolio_level, "SubDepartment")
    IN  [supplier |-> target_supplier, total_skus |-> priced_skus,
         premium_skus |-> premium_skus, at_market_skus |-> at_market_skus,
         discount_skus |-> discount_skus,
         avg_price_index |-> avg_index, median_price_index |-> median_index,
         store_level_indices |-> MeanIndexBy(store_level, "Store"),
         category_indices |-> category_indices,
         price_opportunities |->
             generate_recommendations(avg_index, premium_skus, discount_skus,
                                      priced_skus, category_indices)]

-----------------------------------------------------------------------------
(* src/src/quality/health_score.py: DataQualityAnalyzer.  The three overall *)
(* metrics are read by no property below and are left out of the report.   *)
(* Of the issues that analyze() records, the two of severity "info" are    *)
(* left out: the barcode issue reads a column that is not modelled, and the *)
(* outlier issue does not arise on files as small as the modelled ones      *)
(* (their 0.99 quantile is their highest price, which no record exceeds).  *)

\* QualityConfig (src/src/config.py)
max_acceptable_null_pct == RInt(5)

max_acceptable_negative_pct == RInt(1)

max_acceptable_zero_pct == RInt(2)

min_trust_score == Rat(75, 100)

completeness_weight == Rat(30, 100)

validity_weight == Rat(40, 100)

consistency_weight == Rat(30, 100)

\* len(ANALYSIS_CONFIG.required_columns)
required_columns == 10

\* len(rows) / total * 100
PctOf(rows, total) == Rat(Cardinality(rows) * 100, Cardinality(total))

\* _score_completeness: the mean null percentage of the required columns, of
\* which Supplier alone has nulls in the modelled files
score_completeness(rows) ==
    LET avg_null_pct == RDiv(PctOf({r \in rows : r.Supplier = NULL}, rows),
                             RInt(required_columns))
    IN  RMax0(RSub(RInt(1), RDiv(avg_null_pct, RInt(100))))

\* _score_validity
score_validity(rows) ==
    LET negative_pct   == PctOf({r \in rows : r.Quantity < 0 \/ r.TotalSales < 0}, rows)
        zero_pct       == PctOf({r \in rows : r.Quantity = 0 \/ r.TotalSales = 0}, rows)
        negative_score == RMax0(RSub(RInt(1), RDiv(negative_pct, max_acceptable_negative_pct)))
        zero_score     == RMax0(RSub(RInt(1), RDiv(zero_pct, max_acceptable_zero_pct)))
    IN  RDiv(RAdd(negative_score, zero_score), RInt(2))

\* _score_consistency
score_consistency(rows) ==
    LET df_with_price == {r \in rows : r.Quantity > 0 /\ r.TotalSales > 0 /\ r.RRP # NULL}
        above_rrp     == {r \in df_with_price :
                             RLess(RMul(r.RRP, Rat(12, 10)), calculate_realized_price(r))}
    IN  IF df_with_price = {} THEN RInt(1)
        ELSE RMax0(RSub(RInt(1), RDiv(PctOf(above_rrp, df_with_price), RInt(30))))

\* DataQualityScore.grade
grade(overall_score) ==
    IF RLeq(Rat(9, 10), overall_score) THEN "A"
    ELSE IF RLeq(Rat(8, 10), overall_score) THEN "B"
    ELSE IF RLeq(Rat(7, 10), overall_score) THEN "C"
    ELSE IF RLeq(Rat(6, 10), overall_score) THEN "D"
    ELSE "F"

\* mutant of EntityScore: an entity is trusted only above min_trust_score
EntityScore_above_threshold(entity, entity_type, entity_df) ==
    LET completeness == score_completeness(entity_df)
        validity     == score_validity(entity_df)
        consistency  == score_consistency(entity_df)
        overall      == RAdd(RAdd(RMul(completeness, completeness_weight),
                                  RMul(validity, validity_weight)),
                             RMul(consistency, consistency_weight))
    IN  [entity_name |-> entity, entity_type |-> entity_type,
         completeness_score |-> completeness, validity_score |-> validity,
         consistency_score |-> consistency, overall_score |-> overall,
         total_records |-> Cardinality(entity_df),
         is_trusted |-> RLess(min_trust_score, overall),
         grade |-> grade(overall)]

\* the DataQualityScore of one entity (a store or a supplier): entity_df are
\* its rows
EntityScore(entity, entity_type, entity_df) ==
    LET completeness == score_completeness(entity_df)
        validity     == score_validity(entity_df)
        consistency  == score_consistency(entity_df)
        overall      == RAdd(RAdd(RMul(completeness, completeness_weight),
                                  RMul(validity, validity_weight)),
                             RMul(consistency, consistency_weight))
    IN  [entity_name |-> entity, entity_type |-> entity_type,
         completeness_score |-> completeness, validity_score |-> validity,
         consistency_score |-> consistency, overall_score |-> overall,
         total_records |-> Cardinality(entity_df),
         is_trusted |-> RLeq(min_trust_score, overall),
         grade |-> grade(overall)]

\* _score_entities: one score for every entity that is not null (as a set: the
\* list is sorted by overall_score, entities of equal score in no fixed order)
score_entities(frame, entity_col, entity_type) ==
    LET named == IF entity_col = "Supplier" THEN {r \in frame : r.Supplier # NULL}
                 ELSE frame
    IN  {EntityScore(e, entity_type, {r \in named : r[entity_col] = e}) :
            e \in {r[entity_col] : r \in named}}

DataQualityIssue(issue_type, severity, field_name, count, percentage) ==
    [issue_type |-> issue_type, severity |-> severity, field_name |-> field_name,
     count |-> count, percentage |-> percentage]

\* the issue that a percentage above the limit raises
issue_above(limit, percentage, issue) ==
    IF RLess(limit, percentage) THEN <<issue>> ELSE <<>>

\* the issues _calculate_overall_completeness appends to self.issues: of the
\* required columns, Supplier alone has nulls in the modelled files
completeness_issues(frame) ==
    issue_above(max_acceptable_null_pct,
                PctOf({r \in frame : r.Supplier = NULL}, frame),
                DataQualityIssue("missing_values",
                                 IF RLess(RInt(10), PctOf({r \in frame : r.Supplier = NULL}, frame))
                                 THEN "critical" ELSE "warning",
                                 "Supplier",
                                 Cardinality({r \in frame : r.Supplier = NULL}),
                                 PctOf({r \in frame : r.Supplier = NULL}, frame)))

\* len(negative_qty) + len(negative_sales)
negative_count(frame) ==
    Cardinality({r \in frame : r.Quantity < 0}) + Cardinality({r \in frame : r.TotalSales < 0})

\* len(zero_qty) + len(zero_sales)
zero_count(frame) ==
    Cardinality({r \in frame : r.Quantity = 0}) + Cardinality({r \in frame : r.TotalSales = 0})

\* count / self.total_records * 100
pct_of_records(count, frame) == Rat(count * 100, Cardinality(frame))

\* the issues _calculate_overall_validity appends
validity_issues(frame) ==
    issue_above(max_acceptable_negative_pct,
                pct_of_records(negative_count(frame), frame),
                DataQualityIssue("negative_values",
                                 IF RLess(RInt(5), pct_of_records(negative_count(frame), frame))
                                 THEN "critical" ELSE "warning",
                                 "Quantity, Total Sales", negative_count(frame),
                                 pct_of_records(negative_count(frame), frame)))
    \o issue_above(max_acceptable_zero_pct,
                   pct_of_records(zero_count(frame), frame),
                   DataQualityIssue("zero_values", "warning", "Quantity, Total Sales",
                                    zero_count(frame),
                                    pct_of_records(zero_count(frame), frame)))

\* the records with a price and an RRP
with_price_and_rrp(frame) ==
    {r \in frame : r.Quantity > 0 /\ r.TotalSales > 0 /\ r.RRP # NULL}

\* those of them priced more than 20% above RRP
above_rrp(frame) ==
    {r \in with_price_and_rrp(frame) :
        RLess(RMul(r.RRP, Rat(12, 10)), calculate_realized_price(r))}

\* the issue _calculate_overall_consistency appends
consistency_issues(frame) ==
    IF with_price_and_rrp(frame) = {} THEN <<>>
    ELSE issue_above(RInt(20),
                     PctOf(above_rrp(frame), with_price_and_rrp(frame)),
                     DataQualityIssue("price_consistency", "warning",
                                      "realized_unit_price vs RRP",
                                      Cardinality(above_rrp(frame)),
                                      PctOf(above_rrp(frame), with_price_and_rrp(frame))))

\* what one analyze() call appends to self.issues, in the order of the calls
recorded_issues(frame) ==
    completeness_issues(frame) \o validity_issues(frame) \o consistency_issues(frame)

\* [issue for issue in self.issues if issue.severity == "critical"]
critical_issues(all_issues) == SelectSeq(all_issues, LAMBDA i : i.severity = "critical")

\* the DataQualityReport that analyze() builds from the scores and from
\* self.issues
DataQualityReport(frame, store_scores, supplier_scores, all_issues) ==
    [total_records |-> Cardinality(frame),
     total_stores |-> col_n_unique(Col(frame, "Store")),
     total_suppliers |-> col_n_unique(Col(frame, "Supplier")),
     store_scores |-> store_scores,
     supplier_scores |-> supplier_scores,
     critical_issues |-> critical_issues(all_issues),
     trusted_stores |-> Cardinality({x \in store_scores : x.is_trusted}),
     untrusted_stores |->
         Cardinality(store_scores) - Cardinality({x \in store_scores : x.is_trusted}),
     trusted_suppliers |-> Cardinality({x \in supplier_scores : x.is_trusted}),
     untrusted_suppliers |->
         Cardinality(supplier_scores)
             - Cardinality({x \in supplier_scores : x.is_trusted})]

\* DataQualityAnalyzer.analyze, called as `op` on an analyzer whose
\* self.issues is `recorded`: null_count_summary divides by the number of
\* rows, before anything is recorded
analyze(op, frame, recorded) ==
    IF Cardinality(frame) = 0
    THEN Raised(op, <<>>, "ZeroDivisionError", "division by zero")
    ELSE Returned(op, <<>>, score_entities(frame, "Supplier", "supplier"),
                  <<DataQualityReport(frame,
                                      score_entities(frame, "Store", "store"),
                                      score_entities(frame, "Supplier", "supplier"),
                                      recorded \o recorded_issues(frame))>>)

\* generate_quality_report: analyze() of a new analyzer
generate_quality_report(frame) == analyze("generate_quality_report", frame, <<>>)

-----------------------------------------------------------------------------
(* src/src/api/endpoints: what each endpoint answers for a frame.  An      *)
(* endpoint whose answer depends on an order that polars leaves open has    *)
(* several possible answers.                                                *)

Response(status, detail, data) == [status |-> status, detail |-> detail, data |-> data]

\* the exceptions that `except ValueError` catches: pydantic's
\* ValidationError derives from ValueError
ValueErrors == {"ValueError", "ValidationError"}

\* the handler of /api/promos once the detector has answered: the summary,
\* or the status its exception is mapped to
promo_performance_response(summary) ==
    IF summary.outcome = "ok" THEN {Response(200, "", summary.value)}
    ELSE IF summary.outcome \in ValueErrors
    THEN {Response(404, summary.detail, <<>>)}
    ELSE {Response(500, summary.detail, <<>>)}

\* GET /api/promos/{supplier_name}
get_promo_performance(frame, supplier_name) ==
    promo_performance_response(get_supplier_summary(prepare_data(frame), supplier_name))

\* GET /api/pricing/{supplier_name}
get_price_positioning(frame, supplier_name) ==
    {Response(200, "",
              <<get_price_summary(PriceIndexCalculator_prepare_data(frame), supplier_name)>>)}

\* GET /api/kpis/{supplier_name}
get_supplier_kpis(frame, supplier_name) ==
    {Response(200, "",
              <<get_supplier_metrics(KPIAggregator_prepare_data(frame), supplier_name)>>)}

\* the scores whose entity_name has supplier_name inside it, whatever the
\* case of the letters
supplier_scores_of(scores, supplier_name) ==
    {x \in scores : occurs_in(to_lowercase(supplier_name), to_lowercase(x.entity_name))}

\* element [0] of a non-empty list of scores sorted by overall_score
\* descending: a score that none exceeds
first_scores(scores) ==
    {x \in scores : \A y \in scores : RLeq(y.overall_score, x.overall_score)}

\* the handler of /api/quality/suppliers once the report is there
supplier_score_response(report, supplier_name) ==
    IF report.outcome # "ok" THEN {Response(500, report.detail, <<>>)}
    ELSE IF supplier_scores_of(report.rows, supplier_name) = {}
    THEN {Response(404, "Supplier not found", <<>>)}
    ELSE {Response(200, "", <<score>>) :
             score \in first_scores(supplier_scores_of(report.rows, supplier_name))}

\* GET /api/quality/suppliers/{supplier_name}
get_supplier_score(frame, supplier_name) ==
    supplier_score_response(generate_quality_report(frame), supplier_name)

\* "premium" above 1.1, "discount" below 0.9
positioning(avg_price_index) ==
    IF RLess(Rat(11, 10), avg_price_index) THEN "premium"
    ELSE IF RLess(avg_price_index, Rat(9, 10)) THEN "discount"
    ELSE "at_market"

\* the handler of /api/dashboard once its four components have answered:
\* any exception of any of them is mapped to 500
dashboard_response(supplier_name, quality_report, promo_summary, pricing_summary, kpi_summary) ==
    IF quality_report.outcome # "ok"
    THEN {Response(500, quality_report.detail, <<>>)}
    ELSE IF promo_summary.outcome # "ok"
    THEN {Response(500, promo_summary.detail, <<>>)}
    ELSE {Response(200, "",
                   <<[supplier |-> supplier_name, quality |-> quality,
                      promos |-> promo_summary.value,
                      pricing |-> <<pricing_summary.avg_price_index,
                                    positioning(pricing_summary.avg_price_index)>>,
                      kpis |-> kpi_summary]>>) :
             quality \in
                 IF supplier_scores_of(quality_report.rows, supplier_name) = {}
                 THEN {NULL}
                 ELSE {<<x>> : x \in first_scores(
                                  supplier_scores_of(quality_report.rows, supplier_name))}}

\* GET /api/dashboard/{supplier_name}
get_dashboard(frame, supplier_name) ==
    dashboard_response(
        supplier_name,
        generate_quality_report(frame),
        get_supplier_summary(prepare_data(frame), supplier_name),
        get_price_summary(PriceIndexCalculator_prepare_data(frame), supplier_name),
        generate_executive_summary(KPIAggregator_prepare_data(frame), supplier_name))

Endpoints ==
    {"/api/promos", "/api/dashboard", "/api/pricing", "/api/kpis",
     "/api/quality/suppliers"}

\* the answers the endpoint can give for the frame get_df handed to it
EndpointResponses(endpoint, frame, supplier_name) ==
    IF endpoint = "/api/promos" THEN get_promo_performance(frame, supplier_name)
    ELSE IF endpoint = "/api/dashboard" THEN get_dashboard(frame, supplier_name)
    ELSE IF endpoint = "/api/pricing" THEN get_price_positioning(frame, supplier_name)
    ELSE IF endpoint = "/api/kpis" THEN get_supplier_kpis(frame, supplier_name)
    ELSE get_supplier_score(frame, supplier_name)

\* the clients whose requests the server handles at the same time
Clients == {"c1", "c2"}

NoResponse == Response(0, "", <<>>)

\* no request of the client is in flight
Idle ==
    [pc |-> "idle", endpoint |-> "", supplier |-> <<>>, frame |-> {},
     response |-> NoResponse]

NoRequests == [c \in Clients |-> Idle]

-----------------------------------------------------------------------------
(* The state machine: a dataset is assembled, then the detector is called *)

\* the supplier strings a caller asks for
SupplierQueries == { <<"B", "i", "d">>, <<"o", "m", "o">> }

NoCall == [op |-> "none", arg |-> <<>>, outcome |-> "ok", detail |-> "", rows |-> {},
           value |-> <<>>]

Init ==
    /\ df = {}
    /\ ret = NoCall
    /\ requests = NoRequests
    /\ issues = <<>>
    /\ cache = NULL

\* one more row of the file that is loaded
LoadRow(r) ==
    /\ ret = NoCall
    /\ r \notin df
    /\ \/ Cardinality(df) < MaxRows
       \/ OneGroup(df \cup {r}) /\ Cardinality(df) < MaxGroupRows
    /\ df' = df \cup {r}
    /\ UNCHANGED <<ret, requests, issues, cache>>

\* PromoDetector(df).detect_promos()
DetectPromos ==
    /\ ret = NoCall
    /\ ret' = Returned("detect_promos", <<>>, detect_promos(prepare_data(df)), <<>>)
    /\ UNCHANGED <<df, requests, issues, cache>>

\* PromoDetector(df).calculate_promo_coverage(promo_data), promo_data the
\* frame detect_promos returned
CalculatePromoCoverage ==
    /\ ret.op = "detect_promos"
    /\ ret' = Returned("calculate_promo_coverage", <<>>,
                       calculate_promo_coverage(ret.rows), <<>>)
    /\ UNCHANGED <<df, requests, issues, cache>>

\* PromoDetector(df).get_promo_results()
GetPromoResults ==
    /\ ret = NoCall
    /\ ret' = get_promo_results(prepare_data(df))
    /\ UNCHANGED <<df, requests, issues, cache>>

\* PromoDetector(df).get_supplier_summary(supplier)
GetSupplierSummary(supplier) ==
    /\ ret = NoCall
    /\ ret' = get_supplier_summary(prepare_data(df), supplier)
    /\ UNCHANGED <<df, requests, issues, cache>>

\* the caller is done with what the call returned or raised
Discard ==
    /\ ret # NoCall
    /\ ret' = NoCall
    /\ UNCHANGED <<df, requests, issues, cache>>

Next ==
    \/ \E r \in Rows : LoadRow(r)
    \/ DetectPromos
    \/ CalculatePromoCoverage
    \/ GetPromoResults
    \/ \E s \in SupplierQueries : GetSupplierSummary(s)
    \/ Discard

Spec == Init /\ [][Next]_vars

-----------------------------------------------------------------------------
(* The scenario of one product sold in four stores: two stores sell it at  *)
(* 20% below RRP, 22 units in total, and two stores sell it at RRP, 7      *)
(* units in total.  Each store's units are sold on one day or on two.      *)

ScenarioItem == CHOOSE i \in Items : SupplierOf(i) = <<"B", "I", "D", "C", "O">>

\* the rows of a store that sells `units` units at `price` per unit
StoreRows(store, units, price, two_days) ==
    IF two_days /\ units > 1
    THEN { MkRow(store, ScenarioItem, 1,
                 [Quantity |-> 1, TotalSales |-> price, RRP |-> RInt(10)]),
           MkRow(store, ScenarioItem, 2,
                 [Quantity |-> units - 1, TotalSales |-> price * (units - 1),
                  RRP |-> RInt(10)]) }
    ELSE { MkRow(store, ScenarioItem, 1,
                 [Quantity |-> units, TotalSales |-> price * units,
                  RRP |-> RInt(10)]) }

ScenarioDataset(u, v, two_days) ==
    StoreRows("S1", u, 8, two_days) \cup StoreRows("S2", 22 - u, 8, two_days)
      \cup StoreRows("S3", v, 10, two_days) \cup StoreRows("S4", 7 - v, 10, two_days)

ScenarioDatasets ==
    { ScenarioDataset(u, v, t) : u \in 1 .. 21, v \in 1 .. 6, t \in BOOLEAN }

InitScenario ==
    /\ df \in ScenarioDatasets
    /\ ret = NoCall
    /\ requests = NoRequests
    /\ issues = <<>>
    /\ cache = NULL

NextScenario ==
    \/ DetectPromos
    \/ CalculatePromoCoverage
    \/ \E s \in SupplierQueries : GetSupplierSummary(s)
    \/ Discard

SpecScenario == InitScenario /\ [][NextScenario]_vars

-----------------------------------------------------------------------------
(* Portfolios: files in which every (store, item) group follows one of a   *)
(* few day patterns, so that several groups can be on promotion at once    *)

full_price == [Quantity |-> 1, TotalSales |-> 10, RRP |-> RInt(10)]

two_at_10_pct == [Quantity |-> 2, TotalSales |-> 18, RRP |-> RInt(10)]

one_at_20_pct == [Quantity |-> 1, TotalSales |-> 8, RRP |-> RInt(10)]

\* the sale of each day of a group: no sale at all; two promo days and two
\* baseline days, with an uplift of 100% or of 0%; one promo day and two
\* baseline days; a single day
GroupPatterns ==
    { <<>>,
      <<two_at_10_pct, two_at_10_pct, full_price, full_price>>,
      <<one_at_20_pct, one_at_20_pct, full_price, full_price>>,
      <<one_at_20_pct, full_price, full_price>>,
      <<full_price>> }

\* the groups that take every pattern, and those that are absent or promoted
PortfolioGroups == { <<"S1", 101>>, <<"S2", 101>>, <<"S1", 103>> }

OtherGroups == { <<"S1", 102>>, <<"S1", 104>> }

GroupRows(g, pattern) == {MkRow(g[1], g[2], d, pattern[d]) : d \in DOMAIN pattern}

PortfolioDatasets ==
    { UNION {GroupRows(g, f[g]) : g \in PortfolioGroups \cup OtherGroups} :
        f \in {h \in [PortfolioGroups \cup OtherGroups -> GroupPatterns] :
                  \A g \in OtherGroups : Len(h[g]) \in {0, 4} /\ (h[g] # <<>> => h[g][1] = two_at_10_pct)} }

\* the supplier strings a caller asks for: two that differ in case only, a
\* regular expression, one of a competitor and one that occurs nowhere
PortfolioQueries ==
    { <<"B", "i", "d">>, <<"b", "i", "d">>, <<"b", ".", "d">>, <<"n", "g">>,
      <<"o", "m", "o">> }

InitPortfolio ==
    /\ df \in PortfolioDatasets
    /\ ret = NoCall
    /\ requests = NoRequests
    /\ issues = <<>>
    /\ cache = NULL

NextPortfolio ==
    \/ DetectPromos
    \/ GetPromoResults
    \/ \E s \in PortfolioQueries : GetSupplierSummary(s)
    \/ Discard

SpecPortfolio == InitPortfolio /\ [][NextPortfolio]_vars

-----------------------------------------------------------------------------
(* The API: the file is loaded once, then clients send requests, which the *)
(* server handles in any interleaving                                      *)

\* Test_Data.xlsx: one BIDCO group of any pattern, a competitor that is
\* absent or promoted, and possibly a refund
ApiDatasets ==
    { GroupRows(<<"S1", 101>>, p) \cup GroupRows(<<"S1", 102>>, q) \cup refund :
        p \in GroupPatterns,
        q \in {<<>>, <<two_at_10_pct, two_at_10_pct, full_price, full_price>>},
        refund \in {{}, {MkRow("S1", 101, 1,
                               [Quantity |-> -1, TotalSales |-> -10, RRP |-> RInt(10)])}} }

ApiQueries == { <<"B", "i", "d">>, <<"n", "g">>, <<"o", "m", "o">> }

\* load_data() at startup: _df is the file
InitApi ==
    /\ df \in ApiDatasets
    /\ ret = NoCall
    /\ requests = NoRequests
    /\ issues = <<>>
    /\ cache = <<df>>

\* a request arrives and FastAPI resolves Depends(get_df): the handler's df
\* argument is the shared frame
Receive(c, endpoint, supplier_name) ==
    /\ requests[c].pc = "idle"
    /\ requests' = [requests EXCEPT ![c] =
                       [pc |-> "handling", endpoint |-> endpoint,
                        supplier |-> supplier_name, frame |-> df,
                        response |-> NoResponse]]
    /\ UNCHANGED <<df, ret, issues, cache>>

\* mutant of Handle: the analyzer filters the shared frame in place
Handle_in_place(c) ==
    /\ requests[c].pc = "handling"
    /\ \E response \in EndpointResponses(requests[c].endpoint, requests[c].frame,
                                          requests[c].supplier) :
          requests' = [requests EXCEPT ![c].pc = "responded",
                                       ![c].response = response]
    /\ df' = filter_valid_transactions(df, FALSE, FALSE)
    /\ UNCHANGED <<ret, issues, cache>>

\* the handler runs: it builds its analyzers on the frame it was handed
\* (each analyzer assigns its own self.df) and answers
Handle(c) ==
    /\ requests[c].pc = "handling"
    /\ \E response \in EndpointResponses(requests[c].endpoint, requests[c].frame,
                                          requests[c].supplier) :
          requests' = [requests EXCEPT ![c].pc = "responded",
                                       ![c].response = response]
    /\ UNCHANGED <<df, ret, issues, cache>>

\* the client has its answer
Close(c) ==
    /\ requests[c].pc = "responded"
    /\ requests' = [requests EXCEPT ![c] = Idle]
    /\ UNCHANGED <<df, ret, issues, cache>>

NextApi ==
    \/ \E c \in Clients, endpoint \in Endpoints, supplier_name \in ApiQueries :
          Receive(c, endpoint, supplier_name)
    \/ \E c \in Clients : Handle(c)
    \/ \E c \in Clients : Close(c)

SpecApi == InitApi /\ [][NextApi]_vars

-----------------------------------------------------------------------------
(* Price lists: files in which every product of a store is sold a number of *)
(* times at one price, so that products have enough transactions to be     *)
(* priced and competitive sets enough competitors                          *)

\* a sale of one unit at the price; the RRP is 10
sale_at(price) == [Quantity |-> 1, TotalSales |-> price, RRP |-> RInt(10)]

\* n sales of the item in the store, one a day; no row when n is 0
SkuRows(store, item, price, n) ==
    {MkRow(store, item, d, sale_at(price)) : d \in 1 .. n}

\* price and number of sales of a product that is not in the file
not_sold == <<10, 0>>

\* BIDCO's oils 101 and 203, the oils 201 of Kapa and 202 of Pwani, the
\* flours 102 and 105 of Unga and 104 without supplier value; 101 is also
\* sold in S2, where it has no competitor
PricingDatasets ==
    { SkuRows("S1", 101, a, min_transactions_for_price)
      \cup SkuRows("S1", 203, b[1], b[2]) \cup SkuRows("S2", 101, c[1], c[2])
      \cup SkuRows("S1", 201, k[1], k[2]) \cup SkuRows("S1", 202, w[1], w[2])
      \cup SkuRows("S1", 102, u[1], u[2]) \cup SkuRows("S1", 105, v[1], v[2])
      \cup SkuRows("S1", 104, n[1], n[2]) :
        a \in {11, 12},
        b \in {not_sold, <<9, min_transactions_for_price>>,
                         <<8, min_transactions_for_price>>},
        c \in {not_sold, <<10, min_transactions_for_price>>},
        k \in {not_sold, <<10, min_transactions_for_price>>,
                         <<10, min_transactions_for_price - 1>>},
        w \in {not_sold, <<10, min_transactions_for_price>>,
                         <<8, min_transactions_for_price>>},
        u \in {not_sold, <<12, min_transactions_for_price>>},
        v \in {not_sold, <<10, min_transactions_for_price>>},
        n \in {not_sold, <<8, min_transactions_for_price>>} }

PricingQueries == { <<"B", "i", "d">>, <<"n", "g">>, <<"a", "p", "a">> }

InitPricing ==
    /\ df \in PricingDatasets
    /\ ret = NoCall
    /\ requests = NoRequests
    /\ issues = <<>>
    /\ cache = NULL

\* PriceIndexCalculator(df).calculate_price_index(target_supplier, by_store)
CalculatePriceIndex(target_supplier, by_store) ==
    /\ ret = NoCall
    /\ ret' = Returned("calculate_price_index", <<target_supplier, by_store>>,
                       calculate_price_index(PriceIndexCalculator_prepare_data(df),
                                             target_supplier, by_store),
                       <<>>)
    /\ UNCHANGED <<df, requests, issues, cache>>

\* PriceIndexCalculator(df).get_price_summary(target_supplier)
GetPriceSummary(target_supplier) ==
    /\ ret = NoCall
    /\ ret' = Returned("get_price_summary", <<target_supplier>>, {},
                       <<get_price_summary(PriceIndexCalculator_prepare_data(df),
                                           target_supplier)>>)
    /\ UNCHANGED <<df, requests, issues, cache>>

NextPricing ==
    \/ \E target_supplier \in PricingQueries, by_store \in BOOLEAN :
          CalculatePriceIndex(target_supplier, by_store)
    \/ \E target_supplier \in PricingQueries : GetPriceSummary(target_supplier)
    \/ Discard

SpecPricing == InitPricing /\ [][NextPricing]_vars

-----------------------------------------------------------------------------
(* Quality: one DataQualityAnalyzer is built on a file and analyze() is    *)
(* called on it, several times in a row                                    *)

above_rrp_price == [Quantity |-> 1, TotalSales |-> 13, RRP |-> RInt(10)]

refund == [Quantity |-> -1, TotalSales |-> -10, RRP |-> RInt(10)]

free_item == [Quantity |-> 1, TotalSales |-> 0, RRP |-> RInt(10)]

\* the records of one store and item: none, clean records, one record in
\* four priced above RRP, a refund, and a free item
QualityPatterns ==
    { <<>>,
      <<full_price, full_price, full_price, full_price>>,
      <<full_price, full_price, full_price, above_rrp_price>>,
      <<full_price, refund>>,
      <<full_price, free_item>> }

\* BIDCO's item 101 in S1, Unga's item 102 in S2, and item 104, which has no
\* supplier value, in S1
QualityGroups == << <<"S1", 101>>, <<"S2", 102>>, <<"S1", 104>> >>

QualityDatasets ==
    { GroupRows(QualityGroups[1], a) \cup GroupRows(QualityGroups[2], b)
      \cup GroupRows(QualityGroups[3], c) :
        a \in QualityPatterns, b \in QualityPatterns, c \in QualityPatterns }

\* the length of self.issues up to which analyze() is called once more
MaxIssues == 4

\* analyzer = DataQualityAnalyzer(df): self.issues = []
InitQuality ==
    /\ df \in QualityDatasets
    /\ ret = NoCall
    /\ requests = NoRequests
    /\ issues = <<>>
    /\ cache = NULL

\* analyzer.analyze(), as the first call or right after another
Analyze ==
    /\ ret.op \in {"none", "analyze"}
    /\ Len(issues) <= MaxIssues
    /\ ret' = analyze("analyze", df, issues)
    /\ issues' = IF Cardinality(df) = 0 THEN issues ELSE issues \o recorded_issues(df)
    /\ UNCHANGED <<df, requests, cache>>

NextQuality ==
    \/ Analyze
    \/ Discard

SpecQuality == InitQuality /\ [][NextQuality]_vars

-----------------------------------------------------------------------------
(* src/src/api/dependencies.py: the process-wide dataset.  cache is the    *)
(* module global _df (NULL for None, <<frame>> once set), df is the content *)
(* of Test_Data.xlsx on disk, which may change while the process runs.     *)
(* Calls are atomic: main.py calls load_data() at import, before a request *)
(* thread exists.                                                          *)

\* mutant of load_data: an empty cached dataset is loaded again
load_data_retry_when_empty(cached, file, readable) ==
    IF cached \in {NULL, <<{}>>}
    THEN IF readable THEN <<file>> ELSE <<{}>>
    ELSE cached

\* load_data: the value of _df when it returns.  pl.read_excel either returns
\* the file's records or raises, and then _df is an empty DataFrame
load_data(cached, file, readable) ==
    IF cached = NULL
    THEN IF readable THEN <<file>> ELSE <<{}>>
    ELSE cached

\* get_df: the value of _df when it returns, which is what it returns
get_df(cached, file, readable) ==
    IF cached = NULL THEN load_data(cached, file, readable) ELSE cached

\* the files Test_Data.xlsx may hold
CacheFiles == {GroupRows(<<"S1", 101>>, p) : p \in QualityPatterns}

\* the number of load_data and get_df calls a behaviour makes
MaxCalls == 4

\* the calls made so far
calls_made == IF ret.op = "none" THEN 0 ELSE ret.arg[1]

\* what the n-th call reports: `loaded` is _df after it, and detail tells
\* whether _df was assigned during the call
CacheCall(op, n, before, loaded) ==
    [op |-> op, arg |-> <<n>>, outcome |-> "ok",
     detail |-> IF loaded = before THEN "cached" ELSE "read",
     rows |-> IF loaded = NULL THEN {} ELSE loaded[1],
     value |-> loaded]

\* the process starts: _df = None
InitCache ==
    /\ df \in CacheFiles
    /\ ret = NoCall
    /\ requests = NoRequests
    /\ issues = <<>>
    /\ cache = NULL

\* load_data()
LoadData ==
    /\ calls_made < MaxCalls
    /\ \E readable \in BOOLEAN :
          /\ cache' = load_data(cache, df, readable)
          /\ ret' = CacheCall("load_data", calls_made + 1, cache, cache')
    /\ UNCHANGED <<df, requests, issues>>

\* get_df()
GetDf ==
    /\ calls_made < MaxCalls
    /\ \E readable \in BOOLEAN :
          /\ cache' = get_df(cache, df, readable)
          /\ ret' = CacheCall("get_df", calls_made + 1, cache, cache')
    /\ UNCHANGED <<df, requests, issues>>

\* the file on disk is replaced
RewriteFile ==
    /\ df' \in CacheFiles \ {df}
    /\ UNCHANGED <<ret, requests, issues, cache>>

NextCache ==
    \/ LoadData
    \/ GetDf
    \/ RewriteFile

SpecCache == InitCache /\ [][NextCache]_vars

-----------------------------------------------------------------------------
(* filter_valid_transactions on files with zero and negative records *)

\* rows of a file handed to filter_valid_transactions
MaxFilterRows == 3

\* a sale, a discounted sale, a record of nothing, a free item, sales without
\* quantity, a refund, and a negative quantity with positive sales
FilterKinds ==
    { full_price, one_at_20_pct,
      [Quantity |-> 0,  TotalSales |-> 0,   RRP |-> RInt(10)],
      [Quantity |-> 1,  TotalSales |-> 0,   RRP |-> RInt(10)],
      [Quantity |-> 0,  TotalSales |-> 10,  RRP |-> RInt(10)],
      [Quantity |-> -1, TotalSales |-> -10, RRP |-> RInt(10)],
      [Quantity |-> -1, TotalSales |-> 10,  RRP |-> RInt(10)] }

FilterRows == {MkRow("S1", 101, d, k) : d \in 1 .. 2, k \in FilterKinds}

InitFilter ==
    /\ df \in {S \in SUBSET FilterRows : Cardinality(S) <= MaxFilterRows}
    /\ ret = NoCall
    /\ requests = NoRequests
    /\ issues = <<>>
    /\ cache = NULL

\* filter_valid_transactions(df, allow_negatives, allow_zeros)
FilterValidTransactions(allow_negatives, allow_zeros) ==
    /\ ret = NoCall
    /\ ret' = Returned("filter_valid_transactions", <<allow_negatives, allow_zeros>>,
                       filter_valid_transactions(df, allow_negatives, allow_zeros),
                       <<>>)
    /\ UNCHANGED <<df, requests, issues, cache>>

NextFilter ==
    \/ \E allow_negatives, allow_zeros \in BOOLEAN :
          FilterValidTransactions(allow_negatives, allow_zeros)
    \/ DetectPromos
    \/ Discard

SpecFilter == InitFilter /\ [][NextFilter]_vars

-----------------------------------------------------------------------------
(* Properties *)

Statuses == {"on_promo", "baseline", "insufficient_data"}

\* a valid observation: a sale with positive quantity and positive sales
ValidRows == {r \in df : r.Quantity > 0 /\ r.TotalSales > 0}

\* the condition under which a group is in each status
StatusCondition(st, g) ==
    CASE st = "on_promo" ->
            g.promo_days >= min_promo_days /\ g.baseline_days >= min_baseline_days
      [] st = "baseline" ->
            g.promo_days < min_promo_days /\ g.baseline_days >= min_baseline_days
      [] st = "insufficient_data" -> g.baseline_days < min_baseline_days
      [] OTHER -> FALSE

\* C1: every row detect_promos returns carries exactly one of the statuses
\* on_promo, baseline, insufficient_data (never invalid): exactly one of the
\* three conditions holds of it, the one of its status; and every group with
\* at least one valid observation, and no other group, has exactly one row.
C1_ExactlyOneStatus ==
    ret.op = "detect_promos" =>
        /\ \A g \in ret.rows :
              /\ g.promo_status \in Statuses
              /\ g.promo_status # "invalid"
              /\ Cardinality({st \in Statuses : StatusCondition(st, g)}) = 1
              /\ StatusCondition(g.promo_status, g)
        /\ \A r \in ValidRows :
              Cardinality({g \in ret.rows : SameGroup(g, r)}) = 1
        /\ \A g \in ret.rows : \E r \in ValidRows : SameGroup(g, r)

C1_Witness ==
    /\ ret.op = "detect_promos"
    /\ \E g \in ret.rows : g.promo_status = "on_promo"


\* the sale days of the group of g, as daily_data aggregates them
DaysOf(g) == {d \in daily_data(prepare_data(df)) : SameGroup(d, g)}

AtThreshold(d) ==
    d.avg_discount_pct # NULL /\ d.avg_discount_pct = RInt(discount_threshold_pct)

AboveThreshold(d) ==
    d.avg_discount_pct # NULL /\ RLess(RInt(discount_threshold_pct), d.avg_discount_pct)

BelowThreshold(d) ==
    d.avg_discount_pct # NULL /\ RLess(d.avg_discount_pct, RInt(discount_threshold_pct))

\* C2: a sale day whose mean discount equals the threshold counts as a promo
\* day, as does one above it; a day strictly below the threshold and a day
\* whose mean discount is null (no RRP) count as baseline days.
C2_ThresholdBoundary ==
    ret.op = "detect_promos" =>
        \A g \in ret.rows :
            /\ g.promo_days =
                  Cardinality({d \in DaysOf(g) : AtThreshold(d) \/ AboveThreshold(d)})
            /\ g.baseline_days =
                  Cardinality({d \in DaysOf(g) :
                                  BelowThreshold(d) \/ d.avg_discount_pct = NULL})

C2_Witness ==
    /\ ret.op = "detect_promos"
    /\ \E g \in ret.rows :
          /\ \E d \in DaysOf(g) : AtThreshold(d)
          /\ \E d \in DaysOf(g) : BelowThreshold(d)
          /\ \E d \in DaysOf(g) : d.avg_discount_pct = NULL
          /\ g.promo_days = 1

\* C3 (as claimed): for a row with a non-null uplift and both groups
\* non-empty, the sign of uplift_pct is the sign of the difference of the
\* per-observation averages promo_units / promo group size and
\* baseline_units / baseline group size.
C3_UpliftSign ==
    ret.op = "detect_promos" =>
        \A g \in ret.rows :
            (g.uplift_pct # NULL /\ g.promo_days > 0 /\ g.baseline_days > 0) =>
                LET pa == RDiv(g.promo_quantity, RInt(g.promo_days))
                    ba == RDiv(g.baseline_quantity, RInt(g.baseline_days))
                IN  /\ RLess(ba, pa) => RLess(RInt(0), g.uplift_pct)
                    /\ RLess(pa, ba) => RLess(g.uplift_pct, RInt(0))
                    /\ pa = ba => g.uplift_pct = RInt(0)

\* C4: a row whose baseline units are 0, or that has no baseline
\* observation, has a null uplift_pct (not 0); likewise the mean uplift of a
\* product without baseline units.
C4_NullUpliftWithoutBaseline ==
    /\ ret.op = "detect_promos" =>
          \A g \in ret.rows :
              (g.baseline_quantity = RInt(0) \/ g.baseline_days = 0) =>
                  g.uplift_pct = NULL
    /\ ret.op = "calculate_promo_coverage" =>
          \A c \in ret.rows :
              c.total_baseline_units = RInt(0) => c.avg_uplift_pct = NULL

C4_Witness ==
    /\ ret.op = "detect_promos"
    /\ \E g \in ret.rows :
          g.baseline_days = 0 /\ g.promo_days > 0 /\ g.promo_quantity # RInt(0)

\* C5 (as claimed): every row whose status is baseline or insufficient_data
\* has a null uplift_pct.
C5_UpliftOnlyOnPromo ==
    ret.op = "detect_promos" =>
        \A g \in ret.rows :
            g.promo_status \in {"baseline", "insufficient_data"} =>
                g.uplift_pct = NULL

\* the stores that run the promotion of the item of coverage row c
PromoStoresOf(c) ==
    {g.Store : g \in {x \in detect_promos(prepare_data(df)) :
                         x.Item_Code = c.Item_Code /\ x.promo_status = "on_promo"}}

\* C6 (as claimed): promo_coverage_pct is promo_stores / total_stores * 100,
\* lies in [0, 100], and is 0 exactly when no store of the product runs the
\* promotion.
C6_CoverageRange ==
    ret.op = "calculate_promo_coverage" =>
        \A c \in ret.rows :
            /\ RLeq(RInt(0), c.promo_coverage_pct)
            /\ RLeq(c.promo_coverage_pct, RInt(100))
            /\ c.promo_coverage_pct = RInt(0) <=> PromoStoresOf(c) = {}

\* C7 (as claimed): a product sold in exactly one store is never on_promo.
C7_SingleStoreNeverOnPromo ==
    ret.op = "detect_promos" =>
        \A g \in ret.rows :
            Cardinality({r.Store : r \in {x \in ValidRows :
                                             x.Item_Code = g.Item_Code}}) = 1
                => g.promo_status \in {"baseline", "insufficient_data"}

\* C8 (as claimed): in the scenario, detection reports the product on_promo
\* with 2 promo stores, 2 baseline stores, coverage 50% and an uplift of
\* (11 - 3.5) / 3.5 * 100 = 1500/7.
C8_ScenarioUplift ==
    /\ ret.op = "detect_promos" =>
          \E g \in ret.rows : g.promo_status = "on_promo"
    /\ ret.op = "calculate_promo_coverage" =>
          \E c \in ret.rows :
              /\ c.Item_Code = ScenarioItem
              /\ c.stores_with_promo = 2
              /\ c.total_stores_with_sku - c.stores_with_promo = 2
              /\ c.promo_coverage_pct = RInt(50)
              /\ c.avg_uplift_pct = Rat(1500, 7)

\* C9 (as claimed): for a supplier that matches at least one valid record,
\* get_supplier_summary returns a summary and does not raise.
C9_SummaryReturned ==
    (/\ ret.op = "get_supplier_summary"
     /\ \E r \in ValidRows : matches_supplier(r, ret.arg))
        => ret.outcome = "ok" /\ ret.value # <<>>

NotFound(r) ==
    r.outcome = "ValueError" /\ r.detail = "No data found for supplier"

C11_ResultsForSparseData ==
    (ret.op = "get_promo_results" /\ ValidRows # {}) =>
        /\ ret.outcome = "ok"
        /\ \A r \in ValidRows :
              Cardinality({g \in ret.rows : SameGroup(g, r)}) = 1
        /\ \A g \in ret.rows :
              g.baseline_days < min_baseline_days =>
                  g.promo_status = "insufficient_data" /\ g.uplift_pct = NULL

IsNegative(r) == r.Quantity < 0 \/ r.TotalSales < 0

IsZero(r) == r.Quantity = 0 \/ r.TotalSales = 0

\* the valid observations of the group of g
ValidRowsOf(g) == {r \in ValidRows : SameGroup(r, g)}

\* C18: with the default flags filter_valid_transactions keeps exactly the
\* rows with Quantity > 0 and Total Sales > 0; with allow_negatives it keeps
\* the negative rows and with allow_zeros the zero rows (unless the other
\* flag drops them); it returns rows of its input only.  The rows of
\* detect_promos aggregate valid rows only: units and sales are the sums over
\* the valid rows of the group, the days are the days with a valid row, and
\* the promo discount is the mean over promo days of valid rows.
C18_FilterKeepsValid ==
    /\ ret.op = "filter_valid_transactions" =>
          /\ ret.rows \subseteq df
          /\ ret.arg = <<FALSE, FALSE>> =>
                ret.rows = {r \in df : r.Quantity > 0 /\ r.TotalSales > 0}
          /\ ret.arg[1] =>
                \A r \in df : (IsNegative(r) /\ (ret.arg[2] \/ ~IsZero(r))) =>
                                  r \in ret.rows
          /\ ret.arg[2] =>
                \A r \in df : (IsZero(r) /\ (ret.arg[1] \/ ~IsNegative(r))) =>
                                  r \in ret.rows
    /\ ret.op = "detect_promos" =>
          /\ \A g \in ret.rows :
                /\ ValidRowsOf(g) # {}
                /\ RAdd(g.promo_quantity, g.baseline_quantity)
                      = col_sum(NumCol(ValidRowsOf(g), "Quantity"))
                /\ RAdd(g.promo_sales, g.baseline_sales)
                      = col_sum(NumCol(ValidRowsOf(g), "TotalSales"))
                /\ g.total_days = Cardinality({r.Date : r \in ValidRowsOf(g)})
                /\ g.promo_days + g.baseline_days = g.total_days
                /\ g.avg_promo_discount # NULL =>
                      \E r \in ValidRowsOf(g) :
                          RLeq(g.avg_promo_discount, calculate_discount_pct(r))
          /\ \A r \in ValidRows : \E g \in ret.rows : SameGroup(g, r)

C18_Witness ==
    /\ ret.op = "filter_valid_transactions"
    /\ ret.arg = <<FALSE, FALSE>>
    /\ \E r \in df : IsZero(r) /\ ~IsNegative(r)
    /\ \E r \in df : IsNegative(r)
    /\ ret.rows # {}

\* the rows of detect_promos of the supplier that the last call asked for
SupplierDataOfCall == supplier_data(detect_promos(prepare_data(df)), ret.arg)

\* the entries the three statistics are claimed to range over
OnPromoWithUplift(sd) ==
    {g \in sd : g.promo_status = "on_promo" /\ g.uplift_pct # NULL}

\* C14 (as claimed): in get_supplier_summary the average uplift, the median
\* uplift and the average discount are each the statistic of the on_promo
\* entries with a non-null uplift, and of no other entry.
C14_StatisticsOverOnPromo ==
    (ret.op = "get_supplier_summary" /\ SupplierDataOfCall # {}) =>
        LET sd == SupplierDataOfCall
        IN  /\ avg_uplift(sd) = col_mean(Col(OnPromoWithUplift(sd), "uplift_pct"))
            /\ median_uplift(sd) = col_median(Col(OnPromoWithUplift(sd), "uplift_pct"))
            /\ avg_discount(sd) =
                  col_mean(Col(OnPromoWithUplift(sd), "avg_promo_discount"))

\* the list the endpoint hands out: summary.top_performing_skus[:10]
top_performers_slice == 10

TopPerformers(top) ==
    SubSeq(top, 1, IF Len(top) < top_performers_slice THEN Len(top)
                   ELSE top_performers_slice)

\* C15 (as claimed): the top performers are on_promo entries with at least
\* 50 promotion units, at most 10 of them, and exactly the 10 of highest
\* uplift among the entries that qualify (all of them if fewer qualify).
C15_TopPerformersQualify ==
    (ret.op = "get_supplier_summary" /\ SupplierDataOfCall # {}) =>
        LET qualify == {g \in OnPromoWithUplift(SupplierDataOfCall) :
                           RLeq(RInt(50), g.promo_quantity)}
        IN  \A top \in top_skus(valid_uplifts(SupplierDataOfCall)) :
                LET list == TopPerformers(top)
                    in_list == {list[i] : i \in DOMAIN list}
                IN  /\ in_list \subseteq qualify
                    /\ Len(list) = IF Cardinality(qualify) < top_performers_slice
                                   THEN Cardinality(qualify)
                                   ELSE top_performers_slice
                    /\ \A g \in qualify \ in_list : \A x \in in_list :
                          RLeq(g.uplift_pct, x.uplift_pct)

\* C16 (as claimed): the top performers are one list, a function of the
\* data: sorted by uplift descending, entries of equal uplift by product
\* identifier ascending.
C16_TopPerformersOrder ==
    (ret.op = "get_supplier_summary" /\ SupplierDataOfCall # {}) =>
        LET tops == top_skus(valid_uplifts(SupplierDataOfCall))
        IN  /\ \A t1, t2 \in tops : t1 = t2
            /\ \A top \in tops : \A i \in 1 .. (Len(top) - 1) :
                  \/ RLess(top[i + 1].uplift_pct, top[i].uplift_pct)
                  \/ /\ top[i + 1].uplift_pct = top[i].uplift_pct
                     /\ top[i].Item_Code <= top[i + 1].Item_Code

\* C17 (as claimed): two runs of get_supplier_summary on the same dataset
\* report the same category and the same sub_department: each of the two is
\* one value, a function of the data.
C17_SameCategoryEveryRun ==
    (ret.op = "get_supplier_summary" /\ SupplierDataOfCall # {}) =>
        /\ Cardinality(category(SupplierDataOfCall)) = 1
        /\ Cardinality(sub_dept(SupplierDataOfCall)) = 1

\* C20 (as claimed): a row is of the requested supplier exactly when the
\* lower-cased request occurs inside its lower-cased Supplier; requests that
\* differ in case only select the same rows and have the same outcome; and a
\* row without Supplier is never selected.
C20_CaseInsensitiveSubstring ==
    ret.op = "get_supplier_summary" =>
        LET promo_data == detect_promos(prepare_data(df))
        IN  /\ \A g \in promo_data :
                  g \in SupplierDataOfCall <=>
                      (g.Supplier # NULL
                       /\ occurs_in(to_lowercase(ret.arg), to_lowercase(g.Supplier)))
            /\ \A q \in PortfolioQueries :
                  to_lowercase(q) = to_lowercase(ret.arg) =>
                      /\ supplier_data(promo_data, q) = SupplierDataOfCall
                      /\ get_supplier_summary(prepare_data(df), q).outcome = ret.outcome
            /\ \A g \in promo_data : g.Supplier = NULL => g \notin SupplierDataOfCall

-----------------------------------------------------------------------------
(* The API layer *)

\* the request of client c has been answered by the endpoint
Answered(c, endpoint) ==
    requests[c].pc = "responded" /\ requests[c].endpoint = endpoint

\* the supplier that client c asked for matches no record of the frame
MatchesNoRecord(c) ==
    \A r \in requests[c].frame : ~matches_supplier(r, requests[c].supplier)

\* C12 (as claimed): the promotion endpoint and the dashboard endpoint answer
\* 404, and never 500, when the supplier matches zero records.
C12_NotFoundNever500 ==
    \A c \in Clients :
        ((Answered(c, "/api/promos") \/ Answered(c, "/api/dashboard"))
         /\ MatchesNoRecord(c)) =>
            requests[c].response.status = 404

\* the summary that the detector builds for the request of client c
SummaryOf(c) ==
    get_supplier_summary(prepare_data(requests[c].frame), requests[c].supplier)

\* the promotion results of the supplier that client c asked for
SupplierDataOf(c) ==
    supplier_data(detect_promos(prepare_data(requests[c].frame)), requests[c].supplier)

\* C13 (as claimed): the promotion endpoint answers 404 only when the
\* supplier matches zero records, answers 500 for every other failure of the
\* summary, validation failures included, and answers 200 only with a
\* complete summary.
C13_PromoStatusByFailure ==
    \A c \in Clients :
        Answered(c, "/api/promos") =>
            /\ requests[c].response.status = 404 => SupplierDataOf(c) = {}
            /\ (SummaryOf(c).outcome # "ok" /\ SupplierDataOf(c) # {}) =>
                   requests[c].response.status = 500
            /\ requests[c].response.status = 200 =>
                   (SummaryOf(c).outcome = "ok"
                    /\ requests[c].response.data = SummaryOf(c).value)

\* C19: whatever the interleaving of the requests, no request changes the
\* shared dataset, and every answer is one that the same request gets when
\* it runs alone on the shared dataset.
C19_RequestsDoNotInterfere ==
    /\ [](\A c \in Clients :
             requests[c].pc = "responded" =>
                 requests[c].response \in
                     EndpointResponses(requests[c].endpoint, df, requests[c].supplier))
    /\ [][df' = df]_vars

\* two requests for different analyses of different suppliers have been
\* handled side by side on a dataset that the analyzers filter, one of them
\* with success
C19_Witness ==
    /\ requests["c1"].pc = "responded"
    /\ requests["c2"].pc = "responded"
    /\ requests["c1"].endpoint = "/api/pricing"
    /\ requests["c2"].endpoint = "/api/promos"
    /\ requests["c1"].supplier # requests["c2"].supplier
    /\ requests["c1"].response.status = 200
    /\ filter_valid_transactions(df, FALSE, FALSE) \notin {df, {}}

-----------------------------------------------------------------------------
(* The summary's share of products on promotion *)

\* the products of the supplier that the last call asked for
ProductsOfCall == {g.Item_Code : g \in SupplierDataOfCall}

\* those of them that have an on_promo row in some store
ProductsOnPromoOfCall ==
    {i \in ProductsOfCall :
        \E g \in SupplierDataOfCall : g.Item_Code = i /\ g.promo_status = "on_promo"}

-----------------------------------------------------------------------------
(* Promo days in a row *)

\* the dates of the promo days and of the other sale days of the group of g
PromoDatesOf(g) == {d.Date : d \in {x \in DaysOf(g) : x.is_promo_day}}

BaselineDatesOf(g) == {d.Date : d \in {x \in DaysOf(g) : ~x.is_promo_day}}

\* the group of g has n promo days with no other sale day of the group
\* between them
HasConsecutivePromoDays(g, n) ==
    \E run \in SUBSET PromoDatesOf(g) :
        /\ Cardinality(run) = n
        /\ \A b \in BaselineDatesOf(g) :
              ~(\E d1, d2 \in run : d1 < b /\ b < d2)

\* C22 (as claimed): a group is on_promo only if it has min_promo_days promo
\* days in a row (and min_baseline_days other sale days); promo days that
\* other sale days separate do not add up.
C22_ConsecutivePromoDays ==
    ret.op = "detect_promos" =>
        \A g \in ret.rows :
            g.promo_status = "on_promo" =>
                /\ HasConsecutivePromoDays(g, min_promo_days)
                /\ Cardinality(BaselineDatesOf(g)) >= min_baseline_days

-----------------------------------------------------------------------------
(* Price positions *)

Positions == {"insufficient_data", "premium", "at_market", "discount"}

\* the products with enough transactions to be priced, for the grouping of
\* the last call
PricedSkusOfCall ==
    price_summary(PriceIndexCalculator_prepare_data(df), ret.arg[2])

\* the priced products, with a supplier that is not Bidco, in the competitive
\* set (and store) of the row x
NonBidcoSkusOf(x) ==
    {p \in PricedSkusOfCall :
        SameCompetitiveSet(p, x) /\ p.Supplier # NULL /\ ~p.is_bidco}

\* C23: every row of calculate_price_index has exactly one position:
\* insufficient_data iff its index is null, that is iff its competitive set
\* has fewer than min_competitors_for_index competitors; premium iff the
\* index is above 1.10; discount iff it is below 0.90; at_market otherwise,
\* the two thresholds included.
C23_ExactlyOnePosition ==
    ret.op = "calculate_price_index" =>
        \A x \in ret.rows :
            /\ x.price_position \in Positions
            /\ x.price_position = "insufficient_data" <=> x.price_index = NULL
            /\ x.price_index = NULL <=>
                   Cardinality(NonBidcoSkusOf(x)) < min_competitors_for_index
            /\ x.price_position = "premium" <=>
                   (x.price_index # NULL /\ RLess(Rat(110, 100), x.price_index))
            /\ x.price_position = "discount" <=>
                   (x.price_index # NULL /\ RLess(x.price_index, Rat(90, 100)))
            /\ x.price_position = "at_market" <=>
                   (x.price_index # NULL /\ RLeq(Rat(90, 100), x.price_index)
                    /\ RLeq(x.price_index, Rat(110, 100)))

\* one call returns a product at exactly 1.10 and one at exactly 0.90, both
\* at_market, and a product without competitors
C23_Witness ==
    /\ ret.op = "calculate_price_index"
    /\ \E x \in ret.rows :
          x.price_index = Rat(110, 100) /\ x.price_position = "at_market"
    /\ \E x \in ret.rows :
          x.price_index = Rat(90, 100) /\ x.price_position = "at_market"
    /\ \E x \in ret.rows : x.price_position = "insufficient_data"

\* the priced products of the competitive set (and store) of the row x that
\* are not of the supplier the last call asked for
OtherSupplierSkusOf(x) ==
    {p \in PricedSkusOfCall :
        SameCompetitiveSet(p, x) /\ ~matches_supplier(p, ret.arg[1])}

\* C25 (as claimed): whatever the target supplier, the competitor count and
\* the competitor average of a row are those of products of other suppliers
\* only.
C25_CompetitorsAreOtherSuppliers ==
    ret.op = "calculate_price_index" =>
        \A x \in ret.rows :
            x.price_index # NULL =>
                \E competitors \in SUBSET OtherSupplierSkusOf(x) :
                    /\ x.competitor_count = <<Cardinality(competitors)>>
                    /\ x.competitor_avg_price =
                          col_mean(Col(competitors, "avg_realized_price"))

\* the report of the analyze() call that has just returned
ReportOfCall == ret.value[1]

AnalyzeReturned == ret.op = "analyze" /\ ret.outcome = "ok"

\* the store and supplier scores of that report
ScoresOfCall == ReportOfCall.store_scores \cup ReportOfCall.supplier_scores

InUnitInterval(x) == RLeq(RInt(0), x) /\ RLeq(x, RInt(1))

\* C24: every scored store or supplier has overall_score = 0.30*completeness
\* + 0.40*validity + 0.30*consistency, each component and the overall score
\* lie in [0, 1], and is_trusted holds exactly when overall_score >= 0.75
C24_WeightedScoreAndTrust ==
    AnalyzeReturned =>
        \A x \in ScoresOfCall :
            /\ x.overall_score =
                   RAdd(RAdd(RMul(Rat(30, 100), x.completeness_score),
                             RMul(Rat(40, 100), x.validity_score)),
                        RMul(Rat(30, 100), x.consistency_score))
            /\ InUnitInterval(x.completeness_score)
            /\ InUnitInterval(x.validity_score)
            /\ InUnitInterval(x.consistency_score)
            /\ InUnitInterval(x.overall_score)
            /\ x.is_trusted <=> RLeq(Rat(75, 100), x.overall_score)

\* a report with a supplier scored exactly 0.75, which is trusted, and with
\* an entity scored below it, which is not
C24_Witness ==
    /\ AnalyzeReturned
    /\ \E x \in ReportOfCall.supplier_scores :
           x.overall_score = Rat(75, 100) /\ x.is_trusted
    /\ \E x \in ScoresOfCall : RLess(x.overall_score, Rat(75, 100)) /\ ~x.is_trusted

\* C29: two successive analyze() calls on one analyzer return the same
\* critical_issues list
C29_AnalyzeRepeatable ==
    [][(AnalyzeReturned /\ ret'.op = "analyze" /\ ret'.outcome = "ok")
          => ret'.value[1].critical_issues = ReportOfCall.critical_issues]_vars

\* C30: in every report, trusted + untrusted = total = number of scores, for
\* stores and for suppliers
C30_EntityCountsConsistent ==
    AnalyzeReturned =>
        /\ ReportOfCall.trusted_stores + ReportOfCall.untrusted_stores
               = ReportOfCall.total_stores
        /\ ReportOfCall.total_stores = Cardinality(ReportOfCall.store_scores)
        /\ ReportOfCall.trusted_suppliers + ReportOfCall.untrusted_suppliers
               = ReportOfCall.total_suppliers
        /\ ReportOfCall.total_suppliers = Cardinality(ReportOfCall.supplier_scores)

\* C28: once load_data has run, the cached dataset is never replaced, no
\* later load_data or get_df call reads the file again, and get_df never
\* returns None; a failed load leaves the empty dataset cached
C28_CacheWrittenOnce ==
    [][/\ cache # NULL =>
            /\ cache' = cache
            /\ ret' # ret => ret'.detail = "cached" /\ ret'.value = cache
       /\ ret'.op \in {"load_data", "get_df"} => ret'.value # NULL]_vars

\* a load failed, the file has records, and a later get_df call still
\* returned the empty dataset
C28_Witness ==
    /\ cache = <<{}>>
    /\ df # {}
    /\ ret.op = "get_df"
    /\ ret.arg[1] >= 2
    /\ ret.detail = "cached"
    /\ ret.rows = {}

\* the days on which the group of g has a valid sale
SaleDatesOf(g) == {r.Date : r \in ValidRowsOf(g)}

\* C26: in every row of detect_promos each sale day of the group is either a
\* promo day or a baseline day: the two counts are not negative and add up
\* to total_days >= 1, and promo and baseline units (and sales) add up to the
\* valid units (and sales) of the group
C26_DaysAndUnitsPartition ==
    ret.op = "detect_promos" =>
        \A g \in ret.rows :
            /\ g.promo_days >= 0
            /\ g.baseline_days >= 0
            /\ g.promo_days + g.baseline_days = g.total_days
            /\ g.total_days >= 1
            /\ g.total_days = Cardinality(SaleDatesOf(g))
            /\ g.promo_days = Cardinality(PromoDatesOf(g))
            /\ g.baseline_days = Cardinality(BaselineDatesOf(g))
            /\ PromoDatesOf(g) \cap BaselineDatesOf(g) = {}
            /\ PromoDatesOf(g) \cup BaselineDatesOf(g) = SaleDatesOf(g)
            /\ RAdd(g.promo_quantity, g.baseline_quantity)
                  = SumRat(NumCol(ValidRowsOf(g), "Quantity"))
            /\ RAdd(g.promo_sales, g.baseline_sales)
                  = SumRat(NumCol(ValidRowsOf(g), "TotalSales"))

\* a group with promo days and baseline days, and with a refund or a zero
\* record that is not counted
C26_Witness ==
    /\ ret.op = "detect_promos"
    /\ \E g \in ret.rows :
           /\ g.promo_days >= 1
           /\ g.baseline_days >= 1
           /\ RLess(RInt(0), g.promo_quantity)
           /\ RLess(RInt(0), g.baseline_quantity)
    /\ ValidRows # df

=============================================================================
